---- MODULE Spec2Model ----
(***************************************************************************)
(* A model of the entity graph (src/src/scene.ts) and of the Timeline      *)
(* engine (src/src/timeline.ts) of scenegraph-experimental.                *)
(*                                                                         *)
(* Entities and Timelines are heap objects; they are modelled as small     *)
(* integers, and every field of the classes is a variable indexed by the   *)
(* object.  Entity 0 is the Scene.  Each Entity wraps a scene object of    *)
(* its own, whose `name` and `parent` fields are sceneObjectName and       *)
(* sceneObjectParent.                                                      *)
(***************************************************************************)
EXTENDS Integers, Sequences, FiniteSets, TLC

\* ---------------------------------------------------------------- bounds
NumEntities == 3
NumTimelines == 1
\* The most keyframes a PropertyTimeline is given.
MaxKeyframes == 3
\* The frames of update() the call stack holds.
StackLimit == 4
\* The most keyframes, the most properties and the most callbacks a Timeline
\* is given, and the last tick of the clock.
MaxTimelineKeyframes == 2
MaxProperties == 2
MaxEvents == 3
MaxNow == 2
\* Calls that would make a name longer than this are not explored.
MaxNameLen == 2
\* The Timelines handed to the Scene's cache directly.
MaxRegistered == 4

\* ------------------------------------------------------------- constants
SceneId == 0
NoEntity == -1
\* eventCursor = null
NoCursor == -1

Entities == 0..NumEntities
Timelines == 1..NumTimelines
\* The times keyframes and events are put at, the values of keyframes, and
\* the times getValue is asked for.
KeyTimes == {0, 1, 2, 10}
KeyValues == {5, 9}
QueryTimes == {0, 1, 2, 3, 10, 11}
\* The names the entities' scene objects are created with (sceneObject.name);
\* the Scene's is THREE's default, the empty string.
InitialNames == {"a"}

VARIABLES
    parent,             \* Entity.parent
    children,           \* Entity.children : name -> Entity
    timelines,          \* Entity.timelines : name -> Timeline
    sceneObjectName,    \* Entity.sceneObject.name
    sceneObjectParent,  \* Entity.sceneObject.parent (the wrapped scene object's entity)
    timeline,           \* the Timeline objects, each a record of its fields
    fields,             \* the fields of the scene objects and of their vectors
    timelineCacheSet,   \* Scene.timelineCacheSet, in insertion order
    timelineCache,      \* Scene.timelineCache
    hung,               \* the single thread is inside a loop that never exits
    propertyTimeline,   \* one PropertyTimeline object, taken on its own
    queried,            \* the time and the result of its last getValue call
    now,                \* the clock: Timeline.getTimestamp()
    updated,            \* the last update(): the elapsed time it saw, what it did
    firedInCycle,       \* per Timeline, the event times fired since its cycle began
    last                \* the call made last and how it ended

graphVars == <<parent, children, timelines, sceneObjectName, sceneObjectParent,
               timeline, fields, timelineCacheSet, timelineCache, hung>>
ptVars == <<propertyTimeline, queried>>
tlVars == <<now, updated, firedInCycle>>
vars == <<graphVars, ptVars, tlVars, last>>

\* -------------------------------------------------------------- helpers
Call(op, err, recv, arg, name) == [op |-> op, err |-> err]

Range(f) == {f[x] : x \in DOMAIN f}

EmptyMap == [x \in {} |-> 0]

Put(f, k, v) == [x \in DOMAIN f \cup {k} |-> IF x = k THEN v ELSE f[x]]

Delete(f, k) == [x \in DOMAIN f \ {k} |-> f[x]]

\* The keys every object made by `{}` inherits from Object.prototype; of
\* these (constructor, toString, hasOwnProperty, ...) the calls explored
\* use valueOf.
InheritedKeys == {"valueOf"}

\* `key in map`, for a map made by `{}`: true of its own keys and of the
\* keys it inherits.
In(key, map) == key \in DOMAIN map \/ key \in InheritedKeys

RECURSIVE SetToSeq(_)
SetToSeq(S) ==
    IF S = {} THEN <<>>
    ELSE LET x == CHOOSE y \in S : TRUE IN <<x>> \o SetToSeq(S \ {x})

\* String(n) for a natural number n.
DigitChar == <<"0", "1", "2", "3", "4", "5", "6", "7", "8", "9">>

RECURSIVE NumberToString(_)
NumberToString(n) ==
    IF n < 10 THEN DigitChar[n + 1]
    ELSE NumberToString(n \div 10) \o DigitChar[(n % 10) + 1]

\* ------------------------------------------------------------- JS values
\* A number is an exact fraction n/d; undefined, null and NaN are values of
\* their own.
Num(n) == [kind |-> "number", n |-> n, d |-> 1]
Undefined == [kind |-> "undefined", n |-> 0, d |-> 1]
Null == [kind |-> "null", n |-> 0, d |-> 1]
NaN == [kind |-> "NaN", n |-> 0, d |-> 1]
\* What a call that throws a TypeError yields in place of a value.
TypeError == [kind |-> "TypeError", n |-> 0, d |-> 1]

IsNum(v) == v.kind = "number"

Abs(n) == IF n < 0 THEN -n ELSE n

RECURSIVE Gcd(_, _)
Gcd(a, b) == IF b = 0 THEN a ELSE Gcd(b, a % b)

\* The number n/d (d # 0) in lowest terms with a positive denominator.
Fraction(n, d) ==
    LET g == Gcd(Abs(n), Abs(d))
        sign == IF d < 0 THEN -1 ELSE 1
    IN [kind |-> "number", n |-> sign * (n \div g), d |-> sign * (d \div g)]

\* array[i] for a 0-based index: undefined outside the array.
ArrayAt(array, i) ==
    IF i >= 0 /\ i < Len(array) THEN Num(array[i + 1]) ELSE Undefined

\* a > b and a <= b for JS values: false when either side is undefined.
JsGreater(a, b) == IsNum(a) /\ IsNum(b) /\ a.n * b.d > b.n * a.d
JsLessEq(a, b) == IsNum(a) /\ IsNum(b) /\ a.n * b.d <= b.n * a.d
JsLess(a, b) == IsNum(a) /\ IsNum(b) /\ a.n * b.d < b.n * a.d
JsGreaterEq(a, b) == IsNum(a) /\ IsNum(b) /\ a.n * b.d >= b.n * a.d

\* The decimal digits of a natural number, most significant first.
RECURSIVE Digits(_)
Digits(n) == IF n < 10 THEN <<n>> ELSE Append(Digits(n \div 10), n % 10)

\* s < t for two digit strings compared as strings (by code unit, a proper
\* prefix first).
RECURSIVE StringLess(_, _)
StringLess(s, t) ==
    IF t = <<>> THEN FALSE
    ELSE IF s = <<>> THEN TRUE
    ELSE IF Head(s) # Head(t) THEN Head(s) < Head(t)
    ELSE StringLess(Tail(s), Tail(t))

\* The comparison Array.prototype.sort() makes when it is given no compare
\* function: the elements are compared as strings.
SortBefore(a, b) == StringLess(Digits(a), Digits(b))

RECURSIVE SortInsert(_, _)
SortInsert(sorted, x) ==
    IF sorted = <<>> THEN <<x>>
    ELSE IF SortBefore(x, Head(sorted)) THEN <<x>> \o sorted
    ELSE <<Head(sorted)>> \o SortInsert(Tail(sorted), x)

\* array.sort()
RECURSIVE ArraySort(_)
ArraySort(array) ==
    IF array = <<>> THEN <<>>
    ELSE SortInsert(ArraySort(Tail(array)), Head(array))

\* array.indexOf(x), 0-based, -1 when absent.
IndexOf(array, x) ==
    IF \E i \in DOMAIN array : array[i] = x
    THEN (CHOOSE i \in DOMAIN array : array[i] = x /\ \A j \in 1..(i - 1) : array[j] # x) - 1
    ELSE -1

\* array.splice(start, 1): a negative start counts from the end.
Splice1(array, start) ==
    LET from == IF start < 0 THEN (IF Len(array) + start < 0 THEN 0 ELSE Len(array) + start)
                ELSE start
    IN [i \in 1..(IF from < Len(array) THEN Len(array) - 1 ELSE Len(array)) |->
           IF i <= from THEN array[i] ELSE array[i + 1]]

\* ------------------------------------------------------- PropertyTimeline
\* A PropertyTimeline object: [sortedTimes, keyframes, length, cursor].
NewPropertyTimeline ==
    [sortedTimes |-> <<>>, keyframes |-> EmptyMap, length |-> Num(0), cursor |-> 0]

\* PropertyTimeline.updateLength
updateLength(pt) ==
    [pt EXCEPT !.length = ArrayAt(pt.sortedTimes, Len(pt.sortedTimes) - 1)]

\* PropertyTimeline.addKeyframe
ptAddKeyframe(pt, time, value) ==
    updateLength([pt EXCEPT !.keyframes = Put(@, time, value),
                            !.sortedTimes = ArraySort(Append(@, time))])

\* PropertyTimeline.removeKeyframe
ptRemoveKeyframe(pt, time) ==
    LET spliced == Splice1(pt.sortedTimes, IndexOf(pt.sortedTimes, time))
        lastKeyframe == Len(spliced) - 1
    IN updateLength([pt EXCEPT
           !.keyframes = Delete(@, time),
           !.sortedTimes = spliced,
           !.cursor = IF @ # 0 /\ @ > lastKeyframe THEN lastKeyframe ELSE @])

\* this.keyframes[k].value for a JS value k: a TypeError when there is no
\* such keyframe.
KeyframeValue(pt, k) ==
    IF IsNum(k) /\ k.d = 1 /\ k.n \in DOMAIN pt.keyframes
    THEN Num(pt.keyframes[k.n]) ELSE TypeError

\* The do-while of getValue that pushes the cursor to the past; yields the
\* cursor and whether the loop returned the first keyframe's value.
RECURSIVE SeekPast(_, _, _)
SeekPast(sortedTimes, cursor, time) ==
    IF cursor = 0 THEN [cursor |-> 0, returned |-> TRUE]
    ELSE IF JsGreater(ArrayAt(sortedTimes, cursor - 1), Num(time))
         THEN SeekPast(sortedTimes, cursor - 1, time)
         ELSE [cursor |-> cursor - 1, returned |-> FALSE]

\* A seek to the future that moves the cursor by one keyframe at most.
SeekFutureOnce(sortedTimes, cursor, time) ==
    IF Len(sortedTimes) - 1 > cursor
       /\ JsLessEq(ArrayAt(sortedTimes, cursor + 1), Num(time))
    THEN cursor + 1
    ELSE cursor

\* The while of getValue that pushes the cursor to the future.
RECURSIVE SeekFuture(_, _, _)
SeekFuture(sortedTimes, cursor, time) ==
    IF Len(sortedTimes) - 1 > cursor
       /\ JsLessEq(ArrayAt(sortedTimes, cursor + 1), Num(time))
    THEN SeekFuture(sortedTimes, cursor + 1, time)
    ELSE cursor

\* The last statement of getValue: the blend of the keyframes at k0 and k1,
\* whose values are v0 and v1.
Blend(k0, k1, v0, v1, time) ==
    IF ~IsNum(v0) \/ ~IsNum(v1) THEN TypeError
    ELSE Fraction(v0.n * (k1.n - k0.n) + (time - k0.n) * (v1.n - v0.n),
                  k1.n - k0.n)

\* The tail of getValue, with the cursor on the keyframe at k0 and the next
\* keyframe at k1: the keyframe's own value at its time, else the blend.
Between(pt, k0, k1, time) ==
    IF IsNum(k0) /\ k0.n = time THEN KeyframeValue(pt, k0)
    ELSE Blend(k0, k1, KeyframeValue(pt, k0), KeyframeValue(pt, k1), time)

Interpolate(pt, cursor, time) ==
    Between(pt, ArrayAt(pt.sortedTimes, cursor), ArrayAt(pt.sortedTimes, cursor + 1),
            time)

\* getValue after the cursor was pushed to the past.
getValuePast(pt, seek, time) ==
    [value |-> IF seek.returned
               THEN KeyframeValue(pt, ArrayAt(pt.sortedTimes, 0))
               ELSE Interpolate(pt, seek.cursor, time),
     pt |-> [pt EXCEPT !.cursor = seek.cursor]]

\* getValue after the cursor was pushed to the future.
getValueFuture(pt, cursor, time) ==
    [value |-> IF cursor = Len(pt.sortedTimes) - 1
               THEN KeyframeValue(pt, ArrayAt(pt.sortedTimes, cursor))
               ELSE Interpolate(pt, cursor, time),
     pt |-> [pt EXCEPT !.cursor = cursor]]

\* PropertyTimeline.getValue(time): the value returned (or the TypeError
\* thrown) and the PropertyTimeline with its cursor moved.
getValue(pt, time) ==
    IF Len(pt.sortedTimes) = 0 THEN [value |-> Null, pt |-> pt]
    ELSE IF JsGreater(ArrayAt(pt.sortedTimes, pt.cursor), Num(time))
    THEN getValuePast(pt, SeekPast(pt.sortedTimes, pt.cursor, time), time)
    ELSE getValueFuture(pt, SeekFuture(pt.sortedTimes, pt.cursor, time), time)

\* ----------------------------------------------------------------- Entity

\* The naming loop of Entity.add: `while (name in this.children)`.
RECURSIVE UniqueNameLoop(_, _, _, _)
UniqueNameLoop(initialName, name, nameNumber, kids) ==
    IF In(name, kids)
    THEN UniqueNameLoop(initialName,
                        initialName \o NumberToString(nameNumber + 1),
                        nameNumber + 1, kids)
    ELSE name

UniqueName(initialName, kids) == UniqueNameLoop(initialName, initialName, 0, kids)

\* Entity.getRoot: `let entity = this; while (this.parent !== null) entity =
\* this.parent; return entity`.  The loop tests `this`, which the body never
\* changes: once the body has run with the test still true the loop state
\* (this, entity) repeats and the loop never exits.
RECURSIVE getRootLoop(_, _, _)
getRootLoop(this, entity, par) ==
    IF par[this] = NoEntity THEN [diverges |-> FALSE, root |-> entity]
    ELSE IF entity = par[this] THEN [diverges |-> TRUE, root |-> NoEntity]
    ELSE getRootLoop(this, par[this], par)

getRoot(this, par) == getRootLoop(this, this, par)

\* Entity.getScene, given getRoot's result: the root when it is a Scene.
getScene(root) == IF root = SceneId THEN root ELSE NoEntity

\* Entity.getAllTimelines: a breadth-first walk over `children` collecting
\* the values of every `timelines` map.
RECURSIVE getAllTimelinesLoop(_, _, _, _)
getAllTimelinesLoop(entities, found, kids, tls) ==
    IF entities = <<>> THEN found
    ELSE LET entity == Head(entities)
         IN getAllTimelinesLoop(Tail(entities) \o SetToSeq(Range(kids[entity])),
                                found \o SetToSeq(Range(tls[entity])),
                                kids, tls)

getAllTimelines(this, kids, tls) == getAllTimelinesLoop(<<this>>, <<>>, kids, tls)

\* ------------------------------------------------------------------ Scene

\* A set that takes in an element it already holds.
SetAppendAll(set, tls) == set \o tls

\* Set.add for each timeline, in order: an element already present keeps its
\* place.
RECURSIVE SetAddAll(_, _)
SetAddAll(set, tls) ==
    IF tls = <<>> THEN set
    ELSE SetAddAll(IF \E i \in DOMAIN set : set[i] = Head(tls)
                   THEN set ELSE Append(set, Head(tls)),
                   Tail(tls))

\* Set.delete for each timeline.
SetDeleteAll(set, tls) ==
    SelectSeq(set, LAMBDA t : ~\E i \in DOMAIN tls : tls[i] = t)

\* Scene.registerSceneTimelines: the new set; the array is rebuilt from it.
registerSceneTimelines(set, tls) == SetAddAll(set, tls)

\* Scene.unregisterSceneTimelines
unregisterSceneTimelines(set, tls) == SetDeleteAll(set, tls)

\* `new Array(...set)`: with exactly one numeric element n the Array
\* constructor makes an array of n empty slots instead of [n]; the elements
\* here are Timeline objects, so the array holds the set's elements in order.
ArrayOf(set) == set

\* --------------------------------------------------------- property paths
\* A property path is the sequence of its characters.
LowerCase == {"a", "b", "c", "d", "e", "f", "g", "h", "i", "j", "k", "l", "m",
              "n", "o", "p", "q", "r", "s", "t", "u", "v", "w", "x", "y", "z"}
UpperCase == {"A", "B", "C", "D", "E", "F", "G", "H", "I", "J", "K", "L", "M",
              "N", "O", "P", "Q", "R", "S", "T", "U", "V", "W", "X", "Y", "Z"}
DigitChars == {"0", "1", "2", "3", "4", "5", "6", "7", "8", "9"}
\* [0-9a-zA-Z_], \s, [a-zA-Z_$] and [0-9a-zA-Z_$]
NameChars == DigitChars \cup LowerCase \cup UpperCase \cup {"_"}
SpaceChars == {" ", "\t", "\n", "\r"}
VarStartChars == LowerCase \cup UpperCase \cup {"_", "$"}
VarChars == VarStartChars \cup DigitChars

\* string.split(delimiter)
RECURSIVE SplitLoop(_, _, _, _)
SplitLoop(chars, delimiter, current, pieces) ==
    IF chars = <<>> THEN Append(pieces, current)
    ELSE IF Head(chars) = delimiter
         THEN SplitLoop(Tail(chars), delimiter, <<>>, Append(pieces, current))
         ELSE SplitLoop(Tail(chars), delimiter, Append(current, Head(chars)), pieces)

Split(chars, delimiter) == SplitLoop(chars, delimiter, <<>>, <<>>)

\* The string a sequence of characters spells.
RECURSIVE Join(_)
Join(chars) == IF chars = <<>> THEN "" ELSE Head(chars) \o Join(Tail(chars))

\* (ENTITY_NAME_PATTERN)+ : name characters and whitespace, beginning and
\* ending with a name character.
MatchesEntityNames(chars) ==
    /\ chars # <<>>
    /\ chars[1] \in NameChars
    /\ chars[Len(chars)] \in NameChars
    /\ \A i \in DOMAIN chars : chars[i] \in NameChars \cup SpaceChars

\* VAR_PATTERN
MatchesVar(chars) ==
    /\ chars # <<>>
    /\ chars[1] \in VarStartChars
    /\ \A i \in DOMAIN chars : chars[i] \in VarChars

\* path.match(PROPERTY_PATH_REGEX)
MatchesPropertyPath(path) ==
    LET halves == Split(path, ":")
    IN /\ Len(halves) = 2
       /\ \A piece \in Range(Split(halves[1], "/")) : MatchesEntityNames(piece)
       /\ \A piece \in Range(Split(halves[2], ".")) : MatchesVar(piece)

\* ------------------------------------------------------------ the objects
\* The scene object of entity e is object e; its `position` is a vector
\* object of its own, with a field x.
Obj(id) == [kind |-> "object", n |-> id, d |-> 1]
PositionOf(e) == NumEntities + 1 + e
InitialFields ==
    [o \in 0..(2 * NumEntities + 1) |->
        IF o <= NumEntities
        THEN [f \in {"position"} |-> Obj(PositionOf(o))]
        ELSE [f \in {"x"} |-> Num(0)]]

\* --------------------------------------------------------------- Timeline
NewTimeline(loop) ==
    [loop |-> loop,
     entity |-> NoEntity,
     entityProperties |-> EmptyMap,
     entityPropertiesList |-> <<>>,
     sortedEventTimes |-> <<>>,
     events |-> EmptyMap,
     eventCursor |-> NoCursor,
     playState |-> "Stopped",
     startTime |-> 0,
     pausedTime |-> 0,
     length |-> Num(0)]

NewEntityProperty ==
    [enabled |-> FALSE, object |-> Null, property |-> "",
     timeline |-> NewPropertyTimeline]

\* The walk of resolveProperty over the entity names of the path; `segment`
\* is the name the error message gives.  A name that `children` inherits
\* passes the `in` test; children[next] is then a function of
\* Object.prototype, its sceneObject is undefined, and reading the name of
\* that throws a TypeError.
RECURSIVE WalkScenePath(_, _, _)
WalkScenePath(currentEntity, scenePath, kids) ==
    IF scenePath = <<>> THEN [err |-> "none", entity |-> currentEntity, segment |-> ""]
    ELSE LET next == Join(Head(scenePath))
         IN IF ~In(next, kids[currentEntity])
            THEN [err |-> "UnknownChild", entity |-> currentEntity, segment |-> next]
            ELSE IF next \notin DOMAIN kids[currentEntity]
            THEN [err |-> "TypeError", entity |-> currentEntity, segment |-> next]
            ELSE WalkScenePath(kids[currentEntity][next], Tail(scenePath), kids)

\* The walk of resolveProperty over the field names of the path: every
\* name, the last one too, must be an own property of the object in focus.
RECURSIVE WalkPropertyPath(_, _, _)
WalkPropertyPath(focusObject, propertyPath, heap) ==
    LET propertyName == Join(Head(propertyPath))
    IN IF focusObject.kind \in {"null", "undefined"}
       THEN [err |-> "TypeError", object |-> focusObject, property |-> propertyName]
       ELSE IF focusObject.kind # "object"
               \/ propertyName \notin DOMAIN heap[focusObject.n]
       THEN [err |-> "UnknownProperty", object |-> focusObject,
             property |-> propertyName]
       ELSE IF Len(propertyPath) = 1
       THEN [err |-> "none", object |-> focusObject, property |-> propertyName]
       ELSE WalkPropertyPath(heap[focusObject.n][propertyName],
                             Tail(propertyPath), heap)

\* Timeline.resolveProperty: the error thrown ("none" when it returns) and
\* the Timeline afterwards.
resolveProperty(tl, path, kids, heap) ==
    IF tl.entity = NoEntity THEN [err |-> "none", tl |-> tl]
    ELSE IF tl.entityProperties[path].enabled THEN [err |-> "none", tl |-> tl]
    ELSE IF ~MatchesPropertyPath(path) THEN [err |-> "MalformedPath", tl |-> tl]
    ELSE LET halves == Split(path, ":")
             reached == WalkScenePath(tl.entity, Split(halves[1], "/"), kids)
             found == WalkPropertyPath(Obj(reached.entity), Split(halves[2], "."), heap)
         IN IF reached.err # "none"
            THEN [err |-> reached.err, tl |-> tl, segment |-> reached.segment]
            ELSE IF found.err # "none"
            THEN [err |-> found.err, tl |-> tl, segment |-> found.property]
            ELSE [err |-> "none",
                  tl |-> [tl EXCEPT !.entityProperties[path] =
                             [@ EXCEPT !.object = found.object,
                                       !.property = found.property,
                                       !.enabled = TRUE]]]

\* Timeline.resolveAllProperties: the paths in the order they were added, up
\* to the first that throws.
RECURSIVE resolveAllLoop(_, _, _, _)
resolveAllLoop(tl, paths, kids, heap) ==
    IF paths = <<>> THEN [err |-> "none", tl |-> tl]
    ELSE LET one == resolveProperty(tl, Head(paths), kids, heap)
         IN IF one.err # "none" THEN one
            ELSE resolveAllLoop(one.tl, Tail(paths), kids, heap)

resolveAllProperties(tl, kids, heap) ==
    resolveAllLoop(tl, tl.entityPropertiesList, kids, heap)

\* bindToEntity that binds a Timeline again.
bindToEntityAgain(tl, entity, kids, heap) ==
    resolveAllProperties([tl EXCEPT !.entity = entity], kids, heap)

\* Timeline.bindToEntity
bindToEntity(tl, entity, kids, heap) ==
    IF tl.entity # NoEntity THEN [err |-> "AlreadyBound", tl |-> tl]
    ELSE resolveAllProperties([tl EXCEPT !.entity = entity], kids, heap)

\* `if (v)`: a number is truthy unless it is 0.
Truthy(v) == v.kind = "object" \/ (IsNum(v) /\ v.n # 0)

\* getTimeElapsed that reads the clock while the Timeline is Paused.
getTimeElapsedRunning(tl, timestamp) ==
    IF tl.playState = "Stopped" THEN 0 ELSE timestamp - tl.startTime

\* Timeline.getTimeElapsed, where Timeline.getTimestamp() returns timestamp
getTimeElapsed(tl, timestamp) ==
    IF tl.playState = "Stopped" THEN 0
    ELSE IF tl.playState = "Paused" THEN tl.pausedTime - tl.startTime
    ELSE timestamp - tl.startTime

\* play() that restarts a Timeline that is Playing.
playAlways(tl, startPosition, timestamp) ==
    [tl EXCEPT !.startTime =
                   timestamp - (IF Truthy(startPosition) THEN startPosition.n
                                ELSE IF tl.playState = "Paused"
                                     THEN tl.pausedTime - tl.startTime
                                     ELSE 0),
               !.playState = "Playing"]

\* Timeline.play(startPosition): startPosition is Undefined when not given.
play(tl, startPosition, timestamp) ==
    IF tl.playState = "Playing" THEN tl
    ELSE LET startOffset ==
                 IF Truthy(startPosition) THEN startPosition.n
                 ELSE IF tl.playState = "Paused" THEN tl.pausedTime - tl.startTime
                 ELSE 0
         IN [tl EXCEPT !.startTime = timestamp - startOffset, !.playState = "Playing"]

\* Timeline.pause
pause(tl, timestamp) ==
    IF tl.playState # "Playing" THEN tl
    ELSE [tl EXCEPT !.pausedTime = timestamp, !.playState = "Paused"]

\* Timeline.stop
stop(tl) == [tl EXCEPT !.playState = "Stopped"]

\* Math.max over a non-empty sequence of JS values: NaN as soon as one of
\* them is not a number (undefined converts to NaN).
RECURSIVE MathMax(_)
MathMax(values) ==
    IF \E i \in DOMAIN values : ~IsNum(values[i]) THEN NaN
    ELSE IF Len(values) = 1 THEN values[1]
    ELSE LET rest == MathMax(Tail(values))
         IN IF JsGreater(values[1], rest) THEN values[1] ELSE rest

\* Timeline.getLength
getLength(tl) ==
    MathMax(<<IF Len(tl.sortedEventTimes) = 0 THEN Num(0)
              ELSE ArrayAt(tl.sortedEventTimes, Len(tl.sortedEventTimes) - 1)>>
            \o [i \in DOMAIN tl.entityPropertiesList |->
                   tl.entityProperties[tl.entityPropertiesList[i]].timeline.length])

\* Timeline.updateLengthCache
updateLengthCache(tl) == [tl EXCEPT !.length = getLength(tl)]

\* addKeyframe that does not test for a keyframe already set at the time.
addKeyframeOverwrite(tl, time, propertyPath, value, kids, heap) ==
    IF ~MatchesPropertyPath(propertyPath) THEN [err |-> "MalformedPath", tl |-> tl]
    ELSE LET created ==
                 IF propertyPath \in DOMAIN tl.entityProperties THEN tl
                 ELSE [tl EXCEPT
                          !.entityProperties = Put(@, propertyPath, NewEntityProperty),
                          !.entityPropertiesList = Append(@, propertyPath)]
             added == [created EXCEPT !.entityProperties[propertyPath].timeline =
                                          ptAddKeyframe(@, time, value)]
             resolved == resolveProperty(added, propertyPath, kids, heap)
         IN IF resolved.err # "none" THEN resolved
            ELSE [err |-> "none", tl |-> updateLengthCache(resolved.tl)]

\* Timeline.addKeyframe: the error thrown ("none" when it returns) and the
\* Timeline afterwards.
addKeyframe(tl, time, propertyPath, value, kids, heap) ==
    IF ~MatchesPropertyPath(propertyPath) THEN [err |-> "MalformedPath", tl |-> tl]
    ELSE LET created ==
                 IF propertyPath \in DOMAIN tl.entityProperties THEN tl
                 ELSE [tl EXCEPT
                          !.entityProperties = Put(@, propertyPath, NewEntityProperty),
                          !.entityPropertiesList = Append(@, propertyPath)]
             property == created.entityProperties[propertyPath]
             added == [created EXCEPT !.entityProperties[propertyPath].timeline =
                                          ptAddKeyframe(@, time, value)]
             resolved == resolveProperty(added, propertyPath, kids, heap)
         IN IF time \in DOMAIN property.timeline.keyframes
            THEN [err |-> "DuplicateKeyframe", tl |-> created]
            ELSE IF resolved.err # "none" THEN resolved
            ELSE [err |-> "none", tl |-> updateLengthCache(resolved.tl)]

\* Timeline.removeKeyframe
removeKeyframe(tl, time, propertyPath) ==
    IF propertyPath \notin DOMAIN tl.entityProperties
    THEN [err |-> "UnknownPropertyPath", tl |-> tl]
    ELSE IF time \notin DOMAIN tl.entityProperties[propertyPath].timeline.keyframes
    THEN [err |-> "UnknownKeyframe", tl |-> tl]
    ELSE [err |-> "none",
          tl |-> updateLengthCache(
                     [tl EXCEPT !.entityProperties[propertyPath].timeline =
                                    ptRemoveKeyframe(@, time)])]

\* Timeline.addEvent
addEvent(tl, time, callback) ==
    LET bucket == IF time \in DOMAIN tl.events THEN tl.events[time] ELSE <<>>
        times == IF \E i \in DOMAIN tl.sortedEventTimes : tl.sortedEventTimes[i] = time
                 THEN tl.sortedEventTimes
                 ELSE ArraySort(Append(tl.sortedEventTimes, time))
    IN updateLengthCache([tl EXCEPT !.events = Put(@, time, Append(bucket, callback)),
                                    !.sortedEventTimes = times])

\* What one update() does, in order: the writes of bound fields and the
\* callbacks called, each with the pass of update() it happened in.
Effect(kind, pass, time, target, name, value) ==
    [kind |-> kind, pass |-> pass, time |-> time, target |-> target,
     name |-> name, value |-> value]

\* The for loop of update() over entityPropertiesList; writeProperty is the
\* assignment of `got`, the result of getValue, to the field of the property
\* at the head of `paths`.
RECURSIVE writeProperties(_, _, _, _, _, _)
writeProperty(paths, tl, heap, timeElapsed, trace, pass, property, got) ==
    IF got.value = TypeError
    THEN [err |-> "TypeError",
          tl |-> [tl EXCEPT !.entityProperties[Head(paths)].timeline = got.pt],
          heap |-> heap, trace |-> trace]
    ELSE writeProperties(
             Tail(paths),
             [tl EXCEPT !.entityProperties[Head(paths)].timeline = got.pt],
             [heap EXCEPT ![property.object.n] = Put(@, property.property, got.value)],
             timeElapsed,
             Append(trace, Effect("write", pass, timeElapsed, property.object.n,
                                  property.property, got.value)),
             pass)

writeProperties(paths, tl, heap, timeElapsed, trace, pass) ==
    IF paths = <<>>
    THEN [err |-> "none", tl |-> tl, heap |-> heap, trace |-> trace]
    ELSE IF ~tl.entityProperties[Head(paths)].enabled
    THEN writeProperties(Tail(paths), tl, heap, timeElapsed, trace, pass)
    ELSE writeProperty(paths, tl, heap, timeElapsed, trace, pass,
                       tl.entityProperties[Head(paths)],
                       getValue(tl.entityProperties[Head(paths)].timeline, timeElapsed))

\* Only the callback registered last at the time is called.
FiredLastOnly(tl, time, pass) ==
    <<Effect("fire", pass, time, tl.events[time][Len(tl.events[time])], "", Undefined)>>

\* events[time].forEach(event => event.callback())
Fired(tl, time, pass) ==
    [i \in DOMAIN tl.events[time] |->
        Effect("fire", pass, time, tl.events[time][i], "", Undefined)]

\* The while loop of update() over the event times; fireNext is its body
\* for the cursor nextCursor and the time nextTime found there.
RECURSIVE fireEvents(_, _, _, _)
fireNext(tl, timeElapsed, trace, pass, nextCursor, nextTime) ==
    IF JsLess(Num(timeElapsed), nextTime)
    THEN [err |-> "none", tl |-> tl, trace |-> trace]
    ELSE IF ~IsNum(nextTime)
    THEN [err |-> "TypeError", tl |-> [tl EXCEPT !.eventCursor = nextCursor],
          trace |-> trace]
    ELSE fireEvents([tl EXCEPT !.eventCursor = nextCursor], timeElapsed,
                    trace \o Fired(tl, nextTime.n, pass), pass)

nextEventCursor(tl) == IF tl.eventCursor = NoCursor THEN 0 ELSE tl.eventCursor + 1

fireEvents(tl, timeElapsed, trace, pass) ==
    IF ~(\/ tl.eventCursor = NoCursor /\ Len(tl.sortedEventTimes) # 0
         \/ tl.eventCursor # NoCursor
            /\ Len(tl.sortedEventTimes) - 1 < tl.eventCursor)
    THEN [err |-> "none", tl |-> tl, trace |-> trace]
    ELSE fireNext(tl, timeElapsed, trace, pass, nextEventCursor(tl),
                  ArrayAt(tl.sortedEventTimes, nextEventCursor(tl)))

\* Timeline.update, entered at call depth `pass`: the error thrown ("none"
\* when it returns), the Timeline and the fields afterwards, what it did and
\* the depth of its last pass.  The call stack holds StackLimit frames of
\* update(); one more is a RangeError.
RECURSIVE update(_, _, _, _, _)

\* The end of update(), after the event loop left `fired`: loop or stop
\* when the time elapsed has reached the length.
updateEnd(fired, heap, timestamp, timeElapsed, pass) ==
    IF fired.err # "none"
    THEN [err |-> fired.err, tl |-> fired.tl, heap |-> heap, trace |-> fired.trace,
          pass |-> pass]
    ELSE IF JsGreaterEq(Num(timeElapsed), fired.tl.length)
    THEN IF fired.tl.loop
         THEN update([fired.tl EXCEPT
                         !.startTime = timestamp - (timeElapsed - fired.tl.length.n),
                         !.eventCursor = NoCursor],
                     heap, timestamp, fired.trace, pass + 1)
         ELSE [err |-> "none", tl |-> stop(fired.tl), heap |-> heap,
               trace |-> fired.trace, pass |-> pass]
    ELSE [err |-> "none", tl |-> fired.tl, heap |-> heap, trace |-> fired.trace,
          pass |-> pass]

\* update() that calls the callbacks of a pass before it writes the fields.
updateCallbacksFirst(wrote, timestamp, timeElapsed, pass) ==
    IF wrote.err # "none"
    THEN [err |-> wrote.err, tl |-> wrote.tl, heap |-> wrote.heap,
          trace |-> wrote.trace, pass |-> pass]
    ELSE updateEnd(IF Len(wrote.tl.sortedEventTimes) > 0
                   THEN [fireEvents(wrote.tl, timeElapsed, <<>>, pass)
                            EXCEPT !.trace = @ \o wrote.trace]
                   ELSE [err |-> "none", tl |-> wrote.tl, trace |-> wrote.trace],
                   wrote.heap, timestamp, timeElapsed, pass)

\* update() after the property loop left `wrote`: the event loop.
updateEvents(wrote, timestamp, timeElapsed, pass) ==
    IF wrote.err # "none"
    THEN [err |-> wrote.err, tl |-> wrote.tl, heap |-> wrote.heap,
          trace |-> wrote.trace, pass |-> pass]
    ELSE updateEnd(IF Len(wrote.tl.sortedEventTimes) > 0
                   THEN fireEvents(wrote.tl, timeElapsed, wrote.trace, pass)
                   ELSE [err |-> "none", tl |-> wrote.tl, trace |-> wrote.trace],
                   wrote.heap, timestamp, timeElapsed, pass)

\* update() that does not test for a Stopped Timeline.
updateWhileStopped(tl, heap, timestamp, trace, pass) ==
    IF pass >= StackLimit
    THEN [err |-> "RangeError", tl |-> tl, heap |-> heap, trace |-> trace,
          pass |-> pass]
    ELSE updateEvents(writeProperties(tl.entityPropertiesList, tl, heap,
                                      getTimeElapsed(tl, timestamp), trace, pass),
                      timestamp, getTimeElapsed(tl, timestamp), pass)

update(tl, heap, timestamp, trace, pass) ==
    IF pass >= StackLimit
    THEN [err |-> "RangeError", tl |-> tl, heap |-> heap, trace |-> trace,
          pass |-> pass]
    ELSE IF tl.playState = "Stopped"
    THEN [err |-> "none", tl |-> tl, heap |-> heap, trace |-> trace, pass |-> pass]
    ELSE updateEvents(writeProperties(tl.entityPropertiesList, tl, heap,
                                      getTimeElapsed(tl, timestamp), trace, pass),
                      timestamp, getTimeElapsed(tl, timestamp), pass)

\* ---------------------------------------------------------------- actions

\* No update() has been made, or another call has been made since.
NoUpdate == [elapsed |-> 0, effects |-> <<>>, pass |-> 0]

\* What is the same at the start of every specification.
InitObjects ==
    /\ timelines = [e \in Entities |-> EmptyMap]
    /\ fields = InitialFields
    /\ timelineCacheSet = <<>>
    /\ timelineCache = <<>>
    /\ hung = FALSE
    /\ propertyTimeline = NewPropertyTimeline
    /\ queried = [time |-> 0, value |-> Undefined]
    /\ now = 0
    /\ updated = NoUpdate
    /\ firedInCycle = [t \in Timelines |-> {}]
    /\ last = Call("new", "none", NoEntity, NoEntity, "")

\* The same, with every entity's scene object named "a".
InitRest ==
    /\ sceneObjectName \in
           {f \in [Entities -> InitialNames \cup {""}] :
               \A e \in Entities : (f[e] = "") <=> (e = SceneId)}
    /\ InitObjects

\* The names scene objects are created with, in one specification or
\* another.
CreatedNames == InitialNames \cup {"valueOf"}

\* The names explored: a name a scene object was created with, followed by
\* fewer than MaxNameLen characters.
NameExplored(name) ==
    \E base \in CreatedNames :
        /\ Len(name) >= Len(base)
        /\ Len(name) < Len(base) + MaxNameLen
        /\ SubSeq(name, 1, Len(base)) = base

\* A new Scene, new entities and new timelines, nothing linked yet.
Init ==
    /\ parent = [e \in Entities |-> NoEntity]
    /\ children = [e \in Entities |-> EmptyMap]
    /\ sceneObjectParent = [e \in Entities |-> NoEntity]
    /\ timeline = [t \in Timelines |-> NewTimeline(FALSE)]
    /\ InitRest

\* this.add(object), for an Entity `object`.
Add(this, object) ==
    /\ ~hung
    /\ UNCHANGED <<ptVars, tlVars>>
    /\ LET name == UniqueName(sceneObjectName[object], children[this])
           par == [parent EXCEPT ![object] = this]
           kids == [children EXCEPT ![this] = Put(@, name, object)]
           root == getRoot(this, par)
           scene == getScene(root.root)
       IN /\ NameExplored(name)
          /\ sceneObjectName' = [sceneObjectName EXCEPT ![object] = name]
          /\ IF sceneObjectParent[object] # NoEntity
             THEN /\ last' = Call("add", "AlreadyParented", this, object, name)
                  /\ UNCHANGED <<parent, children, sceneObjectParent,
                                 timelineCacheSet, timelineCache, hung>>
             ELSE \* THREE's Object3D.add refuses to add an object to itself.
                  /\ sceneObjectParent' =
                         IF object = this THEN sceneObjectParent
                         ELSE [sceneObjectParent EXCEPT ![object] = this]
                  /\ parent' = par
                  /\ children' = kids
                  /\ hung' = root.diverges
                  /\ last' = Call("add", IF root.diverges THEN "hang" ELSE "none",
                                  this, object, name)
                  /\ IF ~root.diverges /\ scene # NoEntity
                     THEN LET set == registerSceneTimelines(timelineCacheSet,
                                         getAllTimelines(object, kids, timelines))
                          IN /\ timelineCacheSet' = set
                             /\ timelineCache' = ArrayOf(set)
                     ELSE UNCHANGED <<timelineCacheSet, timelineCache>>
    /\ UNCHANGED <<timelines, timeline, fields>>

\* Entity.remove of a name that `children` inherits and no child has: the
\* `in` test passes and childObject is a function of Object.prototype.
\* Object3D.remove(undefined) removes nothing, the function is given a
\* field `parent`, the delete finds no own key; then, under a Scene,
\* childObject.getAllTimelines is not a function.
RemoveInherited(this, object, op, arg) ==
    LET root == getRoot(this, parent)
    IN /\ hung' = root.diverges
       /\ last' = Call(op, IF root.diverges THEN "hang"
                           ELSE IF getScene(root.root) # NoEntity THEN "TypeError"
                           ELSE "none",
                       this, arg, object)
       /\ UNCHANGED <<parent, children, timelines, sceneObjectName, sceneObjectParent,
                      timeline, fields, timelineCacheSet, timelineCache>>

\* The body of Entity.remove once `object` is a name.
RemoveNamed(this, object, op, arg) ==
    IF ~In(object, children[this])
    THEN /\ last' = Call(op, "UnknownChild", this, arg, object)
         /\ UNCHANGED graphVars
    ELSE IF object \notin DOMAIN children[this]
    THEN RemoveInherited(this, object, op, arg)
    ELSE LET childObject == children[this][object]
             par == [parent EXCEPT ![childObject] = NoEntity]
             kids == [children EXCEPT ![this] = Delete(@, object)]
             root == getRoot(this, par)
             scene == getScene(root.root)
         IN \* THREE's Object3D.remove unlinks the object when it is a child.
            /\ sceneObjectParent' =
                   IF sceneObjectParent[childObject] = this
                   THEN [sceneObjectParent EXCEPT ![childObject] = NoEntity]
                   ELSE sceneObjectParent
            /\ parent' = par
            /\ children' = kids
            /\ hung' = root.diverges
            /\ last' = Call(op, IF root.diverges THEN "hang" ELSE "none",
                            this, childObject, object)
            /\ IF ~root.diverges /\ scene # NoEntity
               THEN LET set == unregisterSceneTimelines(timelineCacheSet,
                                   getAllTimelines(childObject, kids, timelines))
                    IN /\ timelineCacheSet' = set
                       /\ timelineCache' = ArrayOf(set)
               ELSE UNCHANGED <<timelineCacheSet, timelineCache>>
            /\ UNCHANGED <<timelines, sceneObjectName, timeline, fields>>

\* this.remove(name), for a string.
RemoveName(this, name) ==
    /\ ~hung
    /\ UNCHANGED <<ptVars, tlVars>>
    /\ RemoveNamed(this, name, "removeName", NoEntity)

\* this.remove(object), for an Entity: its scene object's name is looked up.
RemoveEntity(this, object) ==
    /\ ~hung
    /\ UNCHANGED <<ptVars, tlVars>>
    /\ RemoveNamed(this, sceneObjectName[object], "removeEntity", object)

\* this.detach()
Detach(this) ==
    /\ ~hung
    /\ UNCHANGED <<ptVars, tlVars>>
    /\ IF parent[this] # NoEntity
       THEN RemoveNamed(parent[this], sceneObjectName[this], "detach", this)
       ELSE /\ last' = Call("detach", "none", this, this, "")
            /\ UNCHANGED graphVars

\* this.addTimeline(timeline).  No statement of addTimeline stores the
\* timeline in this.timelines: the naming loop and the scan for the timeline
\* read it, nothing writes it.
AddTimeline(this, t) ==
    /\ ~hung
    /\ UNCHANGED <<ptVars, tlVars>>
    /\ LET bound == bindToEntity(timeline[t], this, children, fields)
           root == getRoot(this, parent)
           scene == getScene(root.root)
       IN /\ timeline' = [timeline EXCEPT ![t] = bound.tl]
          /\ IF bound.err # "none"
             THEN /\ last' = Call("addTimeline", bound.err, this, t, "")
                  /\ UNCHANGED <<timelineCacheSet, timelineCache, hung>>
             ELSE /\ hung' = root.diverges
                  /\ last' = Call("addTimeline",
                                  IF root.diverges THEN "hang" ELSE "none",
                                  this, t, "")
                  /\ IF ~root.diverges /\ scene # NoEntity
                     THEN LET set == registerSceneTimelines(timelineCacheSet, <<t>>)
                          IN /\ timelineCacheSet' = set
                             /\ timelineCache' = ArrayOf(set)
                     ELSE UNCHANGED <<timelineCacheSet, timelineCache>>
    /\ UNCHANGED <<parent, children, timelines, sceneObjectName, sceneObjectParent,
                   fields>>

\* this.getRoot(), called on its own.
GetRoot(this) ==
    /\ ~hung
    /\ UNCHANGED <<ptVars, tlVars>>
    /\ LET root == getRoot(this, parent)
       IN /\ hung' = root.diverges
          /\ last' = Call("getRoot", IF root.diverges THEN "hang" ELSE "none",
                          this, root.root, "")
    /\ UNCHANGED <<parent, children, timelines, sceneObjectName, sceneObjectParent,
                   timeline, fields, timelineCacheSet, timelineCache>>

\* this.getScene(), called on its own.
GetScene(this) ==
    /\ ~hung
    /\ UNCHANGED <<ptVars, tlVars>>
    /\ LET root == getRoot(this, parent)
       IN /\ hung' = root.diverges
          /\ last' = Call("getScene", IF root.diverges THEN "hang" ELSE "none",
                          this, getScene(root.root), "")
    /\ UNCHANGED <<parent, children, timelines, sceneObjectName, sceneObjectParent,
                   timeline, fields, timelineCacheSet, timelineCache>>

\* The names passed to this.remove: those of its children, one that is no
\* child's, and one that is no child's and that `children` inherits.
NameArgs(this) == DOMAIN children[this] \cup {"zz"} \cup InheritedKeys

\* The entity graph: the Scene, the entities and the timelines bound to them
\* (timelines that hold no keyframe and no event).
\* The Scene itself is never passed to add.
Next ==
    \/ \E this \in Entities : \E object \in Entities \ {SceneId} : Add(this, object)
    \/ \E this \in Entities : \E name \in NameArgs(this) : RemoveName(this, name)
    \/ \E this, object \in Entities : RemoveEntity(this, object)
    \/ \E this \in Entities : Detach(this)
    \/ \E this \in Entities : \E t \in Timelines : AddTimeline(this, t)
    \/ \E this \in Entities : GetRoot(this)
    \/ \E this \in Entities : GetScene(this)

Spec == Init /\ [][Next]_vars

\* ------------------------------------------------- the Scene's cache
\* scene.registerSceneTimelines(...tls) and
\* scene.unregisterSceneTimelines(...tls), called on their own with up to
\* two Timelines, the same one twice included.
Registrable == 1..MaxRegistered
TimelineLists ==
    {<<>>} \cup {<<t>> : t \in Registrable}
           \cup {<<t1, t2>> : t1 \in Registrable, t2 \in Registrable}

RegisterSceneTimelines(tls) ==
    /\ ~hung
    /\ timelineCacheSet' = registerSceneTimelines(timelineCacheSet, tls)
    /\ timelineCache' = ArrayOf(registerSceneTimelines(timelineCacheSet, tls))
    /\ last' = Call("registerSceneTimelines", "none", SceneId, NoEntity, "")
    /\ UNCHANGED <<parent, children, timelines, sceneObjectName, sceneObjectParent,
                   timeline, fields, hung, ptVars, tlVars>>

UnregisterSceneTimelines(tls) ==
    /\ ~hung
    /\ timelineCacheSet' = unregisterSceneTimelines(timelineCacheSet, tls)
    /\ timelineCache' = ArrayOf(unregisterSceneTimelines(timelineCacheSet, tls))
    /\ last' = Call("unregisterSceneTimelines", "none", SceneId, NoEntity, "")
    /\ UNCHANGED <<parent, children, timelines, sceneObjectName, sceneObjectParent,
                   timeline, fields, hung, ptVars, tlVars>>

NextCache ==
    \/ \E tls \in TimelineLists : RegisterSceneTimelines(tls)
    \/ \E tls \in TimelineLists : UnregisterSceneTimelines(tls)

SpecCache == Init /\ [][NextCache]_vars

\* ------------------------------------------------- names that collide
\* New entities, two of them with scene objects named valueOf: a name no
\* entity has as a child and every `children` inherits.
InitNames ==
    /\ parent = [e \in Entities |-> NoEntity]
    /\ children = [e \in Entities |-> EmptyMap]
    /\ sceneObjectParent = [e \in Entities |-> NoEntity]
    /\ timeline = [t \in Timelines |-> NewTimeline(FALSE)]
    /\ sceneObjectName = [e \in Entities |->
                             IF e = SceneId THEN ""
                             ELSE IF e <= SceneId + 2 THEN "valueOf" ELSE "a"]
    /\ InitObjects

NextNames ==
    \/ \E this \in Entities : \E object \in Entities \ {SceneId} : Add(this, object)
    \/ \E this \in Entities : \E name \in NameArgs(this) : RemoveName(this, name)

SpecNames == InitNames /\ [][NextNames]_vars

\* ------------------------------------------- PropertyTimeline on its own
\* Timeline.addKeyframe reaches PropertyTimeline.addKeyframe only for a time
\* that holds no keyframe yet (timeline.ts:328).
PtAddKeyframe(time, value) ==
    /\ time \notin DOMAIN propertyTimeline.keyframes
    /\ Len(propertyTimeline.sortedTimes) < MaxKeyframes
    /\ propertyTimeline' = ptAddKeyframe(propertyTimeline, time, value)
    /\ last' = Call("pt.addKeyframe", "none", NoEntity, NoEntity, "")
    /\ UNCHANGED <<graphVars, tlVars, queried>>

\* Timeline.removeKeyframe reaches PropertyTimeline.removeKeyframe only for a
\* time that holds a keyframe (timeline.ts:348).
PtRemoveKeyframe(time) ==
    /\ time \in DOMAIN propertyTimeline.keyframes
    /\ propertyTimeline' = ptRemoveKeyframe(propertyTimeline, time)
    /\ last' = Call("pt.removeKeyframe", "none", NoEntity, NoEntity, "")
    /\ UNCHANGED <<graphVars, tlVars, queried>>

PtGetValue(time) ==
    /\ LET got == getValue(propertyTimeline, time)
       IN /\ propertyTimeline' = got.pt
          /\ queried' = [time |-> time, value |-> got.value]
          /\ last' = Call("pt.getValue",
                          IF got.value = TypeError THEN "TypeError" ELSE "none",
                          NoEntity, NoEntity, "")
    /\ UNCHANGED <<graphVars, tlVars>>

NextPT ==
    \/ \E time \in KeyTimes : \E value \in KeyValues : PtAddKeyframe(time, value)
    \/ \E time \in KeyTimes : PtRemoveKeyframe(time)
    \/ \E time \in QueryTimes : PtGetValue(time)

SpecPT == Init /\ [][NextPT]_vars

\* ------------------------------------------------------------ a Timeline
\* The property paths passed to addKeyframe and removeKeyframe.
PathPositionX == <<"a", ":", "p", "o", "s", "i", "t", "i", "o", "n", ".", "x">>
PathNoChild == <<"b", ":", "p", "o", "s", "i", "t", "i", "o", "n", ".", "x">>
PathNoProperty == <<"a", ":", "s", "p", "i", "n", ".", "x">>
PathNoLeaf == <<"a", ":", "p", "o", "s", "i", "t", "i", "o", "n", ".", "w">>
PathMalformed == <<"a", " ", ":", "x">>

\* The keyframes a Timeline holds, over all its properties.
RECURSIVE CountKeyframes(_, _)
CountKeyframes(tl, paths) ==
    IF paths = <<>> THEN 0
    ELSE Cardinality(DOMAIN tl.entityProperties[Head(paths)].timeline.keyframes)
             + CountKeyframes(tl, Tail(paths))

\* The callbacks a Timeline holds, over all its event times.
RECURSIVE CountEvents(_, _)
CountEvents(tl, times) ==
    IF times = <<>> THEN 0
    ELSE Len(tl.events[Head(times)]) + CountEvents(tl, Tail(times))

\* The Scene with one child, named "a", added: the graph a Timeline is bound
\* into.
InitTL ==
    /\ parent = [e \in Entities |-> IF e = SceneId + 1 THEN SceneId ELSE NoEntity]
    /\ children = [e \in Entities |->
                      IF e = SceneId THEN [n \in {"a"} |-> SceneId + 1] ELSE EmptyMap]
    /\ sceneObjectParent = parent
    /\ timeline \in [Timelines -> {NewTimeline(loop) : loop \in BOOLEAN}]
    /\ InitRest

TlAddKeyframe(t, time, propertyPath, value) ==
    /\ ~hung
    /\ LET done == addKeyframe(timeline[t], time, propertyPath, value, children, fields)
       IN /\ CountKeyframes(done.tl, done.tl.entityPropertiesList) <= MaxTimelineKeyframes
          /\ Len(done.tl.entityPropertiesList) <= MaxProperties
          /\ timeline' = [timeline EXCEPT ![t] = done.tl]
          /\ last' = Call("addKeyframe", done.err, NoEntity, NoEntity, "")
    /\ UNCHANGED <<parent, children, timelines, sceneObjectName, sceneObjectParent,
                   fields, timelineCacheSet, timelineCache, hung, ptVars, now,
                   firedInCycle>>
    /\ updated' = NoUpdate

TlRemoveKeyframe(t, time, propertyPath) ==
    /\ ~hung
    /\ LET done == removeKeyframe(timeline[t], time, propertyPath)
       IN /\ timeline' = [timeline EXCEPT ![t] = done.tl]
          /\ last' = Call("removeKeyframe", done.err, NoEntity, NoEntity, "")
    /\ UNCHANGED <<parent, children, timelines, sceneObjectName, sceneObjectParent,
                   fields, timelineCacheSet, timelineCache, hung, ptVars, now,
                   firedInCycle>>
    /\ updated' = NoUpdate

\* addEvent(time, callback) with a callback of its own: the callbacks are
\* numbered in the order they are registered.
TlAddEvent(t, time) ==
    /\ ~hung
    /\ CountEvents(timeline[t], timeline[t].sortedEventTimes) < MaxEvents
    /\ timeline' = [timeline EXCEPT ![t] =
           addEvent(@, time, CountEvents(@, @.sortedEventTimes) + 1)]
    /\ last' = Call("addEvent", "none", NoEntity, NoEntity, "")
    /\ UNCHANGED <<parent, children, timelines, sceneObjectName, sceneObjectParent,
                   fields, timelineCacheSet, timelineCache, hung, ptVars, now,
                   firedInCycle>>
    /\ updated' = NoUpdate

Play(t, startPosition) ==
    /\ ~hung
    /\ timeline' = [timeline EXCEPT ![t] = play(@, startPosition, now)]
    /\ last' = Call("play", "none", NoEntity, NoEntity, "")
    /\ UNCHANGED <<parent, children, timelines, sceneObjectName, sceneObjectParent,
                   fields, timelineCacheSet, timelineCache, hung, ptVars, now,
                   firedInCycle>>
    /\ updated' = NoUpdate

Pause(t) ==
    /\ ~hung
    /\ timeline' = [timeline EXCEPT ![t] = pause(@, now)]
    /\ last' = Call("pause", "none", NoEntity, NoEntity, "")
    /\ UNCHANGED <<parent, children, timelines, sceneObjectName, sceneObjectParent,
                   fields, timelineCacheSet, timelineCache, hung, ptVars, now,
                   firedInCycle>>
    /\ updated' = NoUpdate

Stop(t) ==
    /\ ~hung
    /\ timeline' = [timeline EXCEPT ![t] = stop(@)]
    /\ firedInCycle' = [firedInCycle EXCEPT ![t] = {}]
    /\ last' = Call("stop", "none", NoEntity, NoEntity, "")
    /\ UNCHANGED <<parent, children, timelines, sceneObjectName, sceneObjectParent,
                   fields, timelineCacheSet, timelineCache, hung, ptVars, now>>
    /\ updated' = NoUpdate

\* The event times whose callbacks ran in pass `pass` of an update.
FiredTimes(effects, pass) ==
    {effects[i].time : i \in {j \in DOMAIN effects :
                                 effects[j].kind = "fire" /\ effects[j].pass = pass}}

\* The state after update() of Timeline t yielded `done`.
Updated(t, done) ==
    /\ timeline' = [timeline EXCEPT ![t] = done.tl]
    /\ fields' = done.heap
    /\ updated' = [elapsed |-> getTimeElapsed(timeline[t], now),
                   effects |-> done.trace, pass |-> done.pass]
    /\ firedInCycle' = [firedInCycle EXCEPT ![t] =
           IF done.tl.playState = "Stopped" THEN {}
           ELSE (IF done.pass > 0 THEN {} ELSE @)
                    \cup FiredTimes(done.trace, done.pass)]
    /\ last' = Call("update", done.err, NoEntity, NoEntity, "")

Update(t) ==
    /\ ~hung
    /\ Updated(t, update(timeline[t], fields, now, <<>>, 0))
    /\ UNCHANGED <<parent, children, timelines, sceneObjectName, sceneObjectParent,
                   timelineCacheSet, timelineCache, hung, ptVars, now>>

\* The clock moves on between two calls.
Tick ==
    /\ ~hung
    /\ now < MaxNow
    /\ now' = now + 1
    /\ last' = Call("tick", "none", NoEntity, NoEntity, "")
    /\ updated' = NoUpdate
    /\ UNCHANGED <<graphVars, ptVars, firedInCycle>>

\* The times of events and keyframes of a Timeline that is played, and the
\* positions it is started at (Undefined: play() with no argument).
EventTimes == {0, 1, 2}
PlayTimes == {0, 2}
StartPositions == {Undefined, Num(0), Num(2)}

\* A Timeline of events only, played against the clock.
NextEvents ==
    \/ \E t \in Timelines : \E time \in EventTimes : TlAddEvent(t, time)
    \/ \E t \in Timelines : \E startPosition \in StartPositions : Play(t, startPosition)
    \/ \E t \in Timelines : Pause(t)
    \/ \E t \in Timelines : Stop(t)
    \/ \E t \in Timelines : Update(t)
    \/ Tick

SpecEvents == InitTL /\ [][NextEvents]_vars

\* A Timeline of keyframes for one property of the Scene's child, bound to
\* the Scene and played against the clock.
NextProps ==
    \/ \E t \in Timelines : \E time \in PlayTimes : \E value \in KeyValues :
           TlAddKeyframe(t, time, PathPositionX, value)
    \/ \E t \in Timelines : \E time \in PlayTimes :
           TlRemoveKeyframe(t, time, PathPositionX)
    \/ \E t \in Timelines : AddTimeline(SceneId, t)
    \/ \E t \in Timelines : \E startPosition \in StartPositions : Play(t, startPosition)
    \/ \E t \in Timelines : Pause(t)
    \/ \E t \in Timelines : Stop(t)
    \/ \E t \in Timelines : Update(t)
    \/ Tick

SpecProps == InitTL /\ [][NextProps]_vars

\* A Timeline edited and bound, never played: every kind of path, and every
\* entity to bind to.
EditValues == {5}
EditPaths == {PathPositionX, PathNoChild, PathNoProperty, PathNoLeaf, PathMalformed}

NextEdit ==
    \/ \E t \in Timelines : \E time \in PlayTimes : \E value \in EditValues :
       \E path \in EditPaths : TlAddKeyframe(t, time, path, value)
    \/ \E t \in Timelines : \E time \in PlayTimes : \E path \in EditPaths :
           TlRemoveKeyframe(t, time, path)
    \/ \E t \in Timelines : \E this \in Entities : AddTimeline(this, t)

SpecEdit == InitTL /\ [][NextEdit]_vars

\* A Timeline of keyframes for one property and of events, bound to the
\* Scene and played against the clock without pause.  The keyframe at `time`
\* is given the value KeyValueAt(time); play() is called with no argument or
\* with the greatest start position.
KeyValueAt(time) == IF time = 0 THEN 5 ELSE 9
PlayFrom == {Undefined, Num(2)}

NextPlay ==
    \/ \E t \in Timelines : \E time \in PlayTimes :
           TlAddKeyframe(t, time, PathPositionX, KeyValueAt(time))
    \/ \E t \in Timelines : AddTimeline(SceneId, t)
    \/ \E t \in Timelines : \E time \in PlayTimes : TlAddEvent(t, time)
    \/ \E t \in Timelines : \E startPosition \in PlayFrom : Play(t, startPosition)
    \/ \E t \in Timelines : Update(t)
    \/ Tick

SpecPlay == InitTL /\ [][NextPlay]_vars

\* ------------------------------------------------- paths two levels deep
\* The Scene with a child named "a" that has a child named "a" of its own
\* (the child was given its child, then added to the Scene), and one entity
\* that is in no graph.
InitResolve ==
    /\ parent = [e \in Entities |->
                    IF e = SceneId + 1 THEN SceneId
                    ELSE IF e = SceneId + 2 THEN SceneId + 1 ELSE NoEntity]
    /\ children = [e \in Entities |->
                      IF e = SceneId THEN [n \in {"a"} |-> SceneId + 1]
                      ELSE IF e = SceneId + 1 THEN [n \in {"a"} |-> SceneId + 2]
                      ELSE EmptyMap]
    /\ sceneObjectParent = parent
    /\ timeline \in [Timelines -> {NewTimeline(loop) : loop \in BOOLEAN}]
    /\ InitRest

\* Paths of two entity names: one that resolves from the Scene, and ones
\* whose second name, first name, first field and last field are missing,
\* and one whose first name is a key that `children` inherits.
PathDeep ==
    <<"a", "/", "a", ":", "p", "o", "s", "i", "t", "i", "o",
    "n", ".", "x">>
PathDeepNoChild ==
    <<"a", "/", "c", ":", "p", "o", "s", "i", "t", "i", "o",
    "n", ".", "x">>
PathDeepNoParent ==
    <<"c", "/", "a", ":", "p", "o", "s", "i", "t", "i", "o",
    "n", ".", "x">>
PathDeepNoProperty == <<"a", "/", "a", ":", "s", "p", "i", "n", ".", "x">>
PathDeepNoLeaf ==
    <<"a", "/", "a", ":", "p", "o", "s", "i", "t", "i", "o",
    "n", ".", "w">>
PathInherited ==
    <<"v", "a", "l", "u", "e", "O", "f", "/", "a", ":", "p",
    "o", "s", "i", "t", "i", "o", "n", ".", "x">>
ResolvePaths == {PathPositionX, PathDeep, PathDeepNoChild, PathDeepNoParent,
                 PathDeepNoProperty, PathDeepNoLeaf, PathInherited}

\* A Timeline given keyframes and bound, before or after, to any entity.
NextResolve ==
    \/ \E t \in Timelines : \E time \in PlayTimes : \E value \in EditValues :
       \E path \in ResolvePaths : TlAddKeyframe(t, time, path, value)
    \/ \E t \in Timelines : \E this \in Entities : AddTimeline(this, t)

SpecResolve == InitResolve /\ [][NextResolve]_vars

\* ----------------------------------------------------------- properties
\* The entity is the Scene or has it among its ancestors, following parent
\* links for at most `steps` steps.
RECURSIVE UnderScene(_, _)
UnderScene(entity, steps) ==
    \/ entity = SceneId
    \/ /\ steps > 0
       /\ entity # NoEntity
       /\ parent[entity] # NoEntity
       /\ UnderScene(parent[entity], steps - 1)

\* The entity is reached from `from` by following parent links, in at least
\* one and at most `steps` steps.
RECURSIVE IsAncestor(_, _, _)
IsAncestor(entity, from, steps) ==
    /\ steps > 0
    /\ parent[from] # NoEntity
    /\ \/ parent[from] = entity
       \/ IsAncestor(entity, parent[from], steps - 1)

\* The top-most ancestor of the entity, in a graph without cycles.
RECURSIVE TopAncestor(_, _)
TopAncestor(entity, steps) ==
    IF parent[entity] = NoEntity \/ steps = 0 THEN entity
    ELSE TopAncestor(parent[entity], steps - 1)

\* Parent links and children maps describe one tree per root.
TreeShaped ==
    /\ \A e \in Entities :
           parent[e] # NoEntity => e \in Range(children[parent[e]])
    /\ \A p \in Entities : \A n \in DOMAIN children[p] : parent[children[p][n]] = p
    /\ \A p \in Entities : \A n1, n2 \in DOMAIN children[p] :
           children[p][n1] = children[p][n2] => n1 = n2
    /\ \A e \in Entities : ~IsAncestor(e, e, NumEntities + 1)

\* The Timelines bound to an entity of the Scene's subtree.
BoundUnderScene ==
    {t \in Timelines : UnderScene(timeline[t].entity, NumEntities + 1)}

\* C1: after any calls of add, remove, detach and addTimeline that returned,
\* the Scene's timelineCache holds exactly the Timelines bound to entities of
\* the Scene's subtree, each once.
C1_CacheIsBoundUnderScene ==
    ~hung => /\ Range(timelineCache) = BoundUnderScene
             /\ Len(timelineCache) = Cardinality(BoundUnderScene)

\* The callbacks called in pass 0 of the update just made, in call order.
FiredInUpdate ==
    SelectSeq(updated.effects, LAMBDA effect : effect.kind = "fire" /\ effect.pass = 0)

\* C2: one update() that observes elapsed time e calls, in ascending time
\* order and each once, the callbacks of every scheduled event time <= e that
\* has not fired in the current cycle, and no callback of a time > e.
C2_UpdateFiresAllDue ==
    [][\A t \in Timelines :
        (/\ last'.op = "update"
         /\ last'.err = "none"
         /\ timeline[t].playState # "Stopped"
         /\ updated'.pass = 0)
        => LET fired == FiredInUpdate'
               due == {time \in Range(timeline[t].sortedEventTimes) :
                          time <= updated'.elapsed /\ time \notin firedInCycle[t]}
           IN /\ {fired[i].time : i \in DOMAIN fired} = due
              /\ \A i, j \in DOMAIN fired :
                     i < j => /\ fired[i].time <= fired[j].time
                              /\ fired[i].target # fired[j].target
              /\ \A time \in due : \A k \in DOMAIN timeline[t].events[time] :
                     \E i \in DOMAIN fired :
                         fired[i].target = timeline[t].events[time][k]
    ]_vars

\* C3: update() leaves a bound field as it was when the PropertyTimeline of
\* the field has no keyframes.
C3_NoKeyframesNoWrite ==
    [][\A t \in Timelines :
        last'.op = "update"
        => \A path \in DOMAIN timeline[t].entityProperties :
               LET property == timeline[t].entityProperties[path]
               IN (property.enabled /\ property.timeline.sortedTimes = <<>>)
                  => fields'[property.object.n][property.property]
                         = fields[property.object.n][property.property]
    ]_vars

\* C4: getValue at the time of an existing keyframe returns exactly the value
\* stored at that time, whatever getValue calls came before.
C4_ExactAtKeyframe ==
    (last.op = "pt.getValue" /\ queried.time \in DOMAIN propertyTimeline.keyframes)
        => queried.value = Num(propertyTimeline.keyframes[queried.time])

\* C5: in a tree, getRoot() of every entity terminates with the top-most
\* ancestor and getScene() with that root when it is the Scene, and no call
\* on an entity of a tree fails to return.
C5_GetRootTerminates ==
    TreeShaped =>
        /\ ~hung
        /\ \A e \in Entities :
               LET root == getRoot(e, parent)
                   top == TopAncestor(e, NumEntities + 1)
               IN /\ ~root.diverges
                  /\ root.root = top
                  /\ getScene(root.root) = (IF top = SceneId THEN SceneId ELSE NoEntity)

\* C6: after any calls of add that returned or threw, no two children of one
\* entity carry the same name.
C6_SiblingNamesDistinct ==
    ~hung =>
        \A p \in Entities : \A n1, n2 \in DOMAIN children[p] :
            n1 # n2 => sceneObjectName[children[p][n1]] # sceneObjectName[children[p][n2]]

\* C7: add of a node that has a parent fails with AlreadyParented and leaves
\* the node's name, the parent links and the children maps as they were.
C7_AlreadyParentedChangesNothing ==
    [][\A this \in Entities : \A object \in Entities \ {SceneId} :
        (Add(this, object) /\ parent[object] # NoEntity)
        => /\ last'.err = "AlreadyParented"
           /\ UNCHANGED <<sceneObjectName, parent, children>>
    ]_vars

\* C8: after any calls of add, remove and detach, every entity is listed as a
\* child by its parent and by no other entity, once, and no entity is its own
\* ancestor.
C8_GraphIsTree == TreeShaped

\* The errors of addKeyframe and of bindToEntity.
EditErrors ==
    {"MalformedPath", "DuplicateKeyframe", "UnknownChild", "UnknownProperty",
     "AlreadyBound"}

\* C9: addKeyframe or addTimeline that fails leaves the Timeline with the
\* keyframes, the property paths, the owning entity and the bindings it had.
C9_FailedEditChangesNothing ==
    [][\A t \in Timelines :
        (last'.op \in {"addKeyframe", "addTimeline"} /\ last'.err \in EditErrors)
        => /\ timeline'[t].entity = timeline[t].entity
           /\ timeline'[t].entityProperties = timeline[t].entityProperties
           /\ timeline'[t].entityPropertiesList = timeline[t].entityPropertiesList
    ]_vars

\* C10: every call of update() returns: it does not re-enter itself until
\* the call stack is used up.
C10_UpdateTerminates ==
    last.op = "update" => last.err # "RangeError"

C12_PlayStartsAtPosition ==
    [][\A t \in Timelines : \A startPosition \in StartPositions :
        (Play(t, startPosition) /\ timeline[t].playState # "Playing")
        => /\ timeline'[t].playState = "Playing"
           /\ now - timeline'[t].startTime =
                  IF startPosition # Undefined THEN startPosition.n
                  ELSE IF timeline[t].playState = "Paused"
                       THEN timeline[t].pausedTime - timeline[t].startTime
                       ELSE 0
    ]_vars

\* The times of the events and of the keyframes a Timeline holds.
ScheduledTimes(tl) ==
    Range(tl.sortedEventTimes)
        \cup UNION {DOMAIN tl.entityProperties[path].timeline.keyframes :
                        path \in DOMAIN tl.entityProperties}

\* C13: after any calls of addKeyframe, removeKeyframe and addEvent,
\* getLength() is the greatest of the times of the events and keyframes the
\* Timeline holds, and 0 when it holds none.
C13_LengthIsMaxTime ==
    \A t \in Timelines :
        getLength(timeline[t]) =
            IF ScheduledTimes(timeline[t]) = {} THEN Num(0)
            ELSE Num(CHOOSE m \in ScheduledTimes(timeline[t]) :
                         \A time \in ScheduledTimes(timeline[t]) : time <= m)

\* C14: in every pass of update(), the fields of all bound properties are
\* written, for the elapsed time of the pass, before the first callback of
\* the pass is called.
C14_WritesBeforeCallbacks ==
    [][\A t \in Timelines : Update(t) =>
        \A j \in DOMAIN updated'.effects :
            updated'.effects[j].kind = "fire" =>
                /\ \A i \in DOMAIN updated'.effects :
                       (/\ updated'.effects[i].kind = "write"
                        /\ updated'.effects[i].pass = updated'.effects[j].pass)
                       => i < j
                /\ \A path \in DOMAIN timeline[t].entityProperties :
                       timeline[t].entityProperties[path].enabled =>
                           \E i \in 1..(j - 1) :
                               /\ updated'.effects[i].kind = "write"
                               /\ updated'.effects[i].pass = updated'.effects[j].pass
                               /\ updated'.effects[i].target =
                                      timeline[t].entityProperties[path].object.n
                               /\ updated'.effects[i].name =
                                      timeline[t].entityProperties[path].property
    ]_vars

\* An update() has written a field and called a callback in one pass.
C14_Witness ==
    /\ last.op = "update"
    /\ \E i, j \in DOMAIN updated.effects :
           /\ updated.effects[i].kind = "write"
           /\ updated.effects[j].kind = "fire"
           /\ updated.effects[i].pass = updated.effects[j].pass
           /\ updated.effects[i].value = Num(9)

\* The callbacks called in pass `pass` of an update, in call order, and
\* those of them registered at `time`.
FiredInPass(effects, pass) ==
    SelectSeq(effects, LAMBDA effect : effect.kind = "fire" /\ effect.pass = pass)

FiredAt(effects, pass, time) ==
    SelectSeq(FiredInPass(effects, pass), LAMBDA effect : effect.time = time)

\* C15: when update() calls a callback registered at a time, it calls every
\* callback registered at that time, in the order they were registered, and
\* no callback of a later time has been called before them in the cycle:
\* neither earlier in the pass nor, in the pass that continues a cycle, by an
\* earlier update().
C15_SameTimeTogetherInOrder ==
    [][\A t \in Timelines :
        Update(t) =>
            \A pass \in 0..updated'.pass :
                LET fired == FiredInPass(updated'.effects, pass)
                IN /\ \A i, j \in DOMAIN fired : i < j => fired[i].time <= fired[j].time
                   /\ \A i \in DOMAIN fired :
                          LET together == FiredAt(updated'.effects, pass, fired[i].time)
                          IN [k \in DOMAIN together |-> together[k].target]
                                 = timeline[t].events[fired[i].time]
                   /\ pass = 0 =>
                          \A i \in DOMAIN fired : \A earlier \in firedInCycle[t] :
                              earlier < fired[i].time
    ]_vars

\* An update() has called the two callbacks registered at time 1, the first
\* registered first, while a callback registered at time 2 waits.
C15_Witness ==
    \E t \in Timelines :
        /\ last.op = "update"
        /\ timeline[t].sortedEventTimes = <<1, 2>>
        /\ Len(timeline[t].events[1]) = 2
        /\ Len(FiredAt(updated.effects, 0, 1)) = 2
        /\ FiredAt(updated.effects, 0, 1)[1].target = timeline[t].events[1][1]
        /\ FiredAt(updated.effects, 0, 1)[2].target = timeline[t].events[1][2]

\* C16: update() of a Playing Timeline that does not loop, at elapsed time
\* e: when e >= length it writes the value for e to every bound field that
\* has keyframes, calls the callbacks of every event time <= e not yet
\* called in the cycle, and leaves the Timeline Stopped; when e < length it
\* leaves the Timeline Playing.
C16_StopsAtEnd ==
    [][\A t \in Timelines :
        LET tl == timeline[t]
            e == now - tl.startTime
        IN (/\ last'.op = "update"
            /\ tl.playState = "Playing"
            /\ ~tl.loop
            /\ IsNum(tl.length))
           => IF e >= tl.length.n
              THEN /\ timeline'[t].playState = "Stopped"
                   /\ \A path \in DOMAIN tl.entityProperties :
                          LET property == tl.entityProperties[path]
                          IN (property.enabled /\ property.timeline.sortedTimes # <<>>)
                             => fields'[property.object.n][property.property]
                                    = getValue(property.timeline, e).value
                   /\ {updated'.effects[i].time :
                          i \in {j \in DOMAIN updated'.effects :
                                    updated'.effects[j].kind = "fire"}}
                          = {time \in Range(tl.sortedEventTimes) :
                                time <= e /\ time \notin firedInCycle[t]}
              ELSE timeline'[t].playState = "Playing"
    ]_vars

\* C17: getTimeElapsed() is 0 while the Timeline is Stopped, pausedTime -
\* startTime while it is Paused and now - startTime while it is Playing; a
\* tick of the clock leaves it as it was while Paused and adds the tick
\* while Playing.
C17_TimeElapsedByState ==
    [][\A t \in Timelines :
        LET before == getTimeElapsed(timeline[t], now)
            after == getTimeElapsed(timeline'[t], now')
        IN /\ timeline'[t].playState = "Stopped" => after = 0
           /\ timeline'[t].playState = "Paused"
                  => after = timeline'[t].pausedTime - timeline'[t].startTime
           /\ timeline'[t].playState = "Playing" => after = now' - timeline'[t].startTime
           /\ last'.op = "tick" =>
                  /\ timeline[t].playState = "Paused" => after = before
                  /\ timeline[t].playState = "Playing" => after = before + (now' - now)
    ]_vars

\* The clock has advanced since the Timeline was paused at a non-zero
\* elapsed time.
C17_Witness ==
    \E t \in Timelines :
        /\ last.op = "tick"
        /\ timeline[t].playState = "Paused"
        /\ now > timeline[t].pausedTime
        /\ getTimeElapsed(timeline[t], now) = 1

\* C18: a Timeline starts Stopped; play(), with or without a start
\* position, leaves a Playing Timeline as it is, and pause() leaves a Stopped
\* or Paused Timeline as it is.
C18_PlayAndPauseNoOps ==
    /\ \A t \in Timelines : timeline[t].playState = "Stopped"
    /\ [][\A t \in Timelines :
            /\ \A startPosition \in StartPositions :
                   (Play(t, startPosition) /\ timeline[t].playState = "Playing")
                   => timeline'[t] = timeline[t]
            /\ (Pause(t) /\ timeline[t].playState # "Playing")
                   => timeline'[t] = timeline[t]
       ]_vars

\* play() has been called on a Timeline that was Playing at elapsed time 1:
\* no play() of a Stopped or Paused Timeline that was never paused after
\* time 0 starts at 1.
C18_Witness ==
    \E t \in Timelines :
        /\ last.op = "play"
        /\ timeline[t].playState = "Playing"
        /\ timeline[t].pausedTime = 0
        /\ now - timeline[t].startTime = 1

\* C19: stop() leaves the Timeline Stopped, at elapsed time 0, whatever
\* its play state was, and update() of a Stopped Timeline returns having
\* written no field, called no callback and changed nothing of the Timeline.
C19_StoppedUpdateNoOp ==
    [][\A t \in Timelines :
        /\ Stop(t) =>
               /\ timeline'[t].playState = "Stopped"
               /\ getTimeElapsed(timeline'[t], now') = 0
        /\ (Update(t) /\ timeline[t].playState = "Stopped") =>
               /\ last'.err = "none"
               /\ timeline'[t] = timeline[t]
               /\ fields' = fields
               /\ updated'.effects = <<>>
    ]_vars

\* update() has been called on a Stopped Timeline that is bound, holds a
\* keyframe and was played before: the elapsed time the update observed is
\* 0, which neither the clock nor the paused time gives.
C19_Witness ==
    \E t \in Timelines :
        /\ last.op = "update"
        /\ timeline[t].playState = "Stopped"
        /\ updated.elapsed = 0
        /\ now - timeline[t].startTime # 0
        /\ timeline[t].pausedTime - timeline[t].startTime # 0
        /\ \E path \in DOMAIN timeline[t].entityProperties :
               /\ timeline[t].entityProperties[path].enabled
               /\ timeline[t].entityProperties[path].timeline.sortedTimes # <<>>

\* C20: getValue(t) of a PropertyTimeline that holds keyframes is the value
\* of the keyframe of the least time for every t before that time and the
\* value of the keyframe of the greatest time for every t at or after that
\* time; with no keyframes it is null.
C20_ClampsToFirstAndLast ==
    last.op = "pt.getValue" =>
        LET times == DOMAIN propertyTimeline.keyframes
            first == CHOOSE time \in times : \A other \in times : time <= other
            final == CHOOSE time \in times : \A other \in times : other <= time
        IN IF times = {} THEN queried.value = Null
           ELSE /\ queried.time < first
                       => queried.value = Num(propertyTimeline.keyframes[first])
                /\ queried.time >= final
                       => queried.value = Num(propertyTimeline.keyframes[final])

\* C21: getValue(t) for a time t strictly between two keyframes (t0, v0)
\* and (t1, v1) that are consecutive in numeric time order is
\* v0 + ((t - t0)/(t1 - t0)) * (v1 - v0).
C21_InterpolatesBetweenNeighbours ==
    last.op = "pt.getValue" =>
        \A t0, t1 \in DOMAIN propertyTimeline.keyframes :
            (/\ t0 < queried.time
             /\ queried.time < t1
             /\ \A other \in DOMAIN propertyTimeline.keyframes :
                    other <= t0 \/ other >= t1)
            => queried.value =
                   Fraction(propertyTimeline.keyframes[t0] * (t1 - t0)
                                + (queried.time - t0)
                                      * (propertyTimeline.keyframes[t1]
                                             - propertyTimeline.keyframes[t0]),
                            t1 - t0)

\* C22: a getValue(t) that directly follows a getValue(t) of the same time
\* t, with no keyframe added or removed in between, returns the value the
\* first returned.
C22_GetValueTwiceSame ==
    [][\A time \in QueryTimes :
        (/\ last.op = "pt.getValue"
         /\ queried.time = time
         /\ PtGetValue(time))
        => queried'.value = queried.value
    ]_vars

\* getValue has moved the cursor off the first keyframe and blended two
\* keyframes into a value that is neither's, and asked again for the same
\* time it answers the same.
C22_Witness ==
    /\ last.op = "pt.getValue"
    /\ propertyTimeline.cursor > 0
    /\ queried.value.d # 1
    /\ getValue(propertyTimeline, queried.time).value = queried.value

\* C23: addKeyframe for a valid path at a time that holds a keyframe of
\* that path fails with DuplicateKeyframe; the keyframe at that time keeps
\* its value, and sortedTimes and both lengths are as they were.
C23_DuplicateKeyframeRejected ==
    [][\A t \in Timelines : \A time \in PlayTimes : \A value \in KeyValues :
        (/\ PathPositionX \in DOMAIN timeline[t].entityProperties
         /\ time \in DOMAIN timeline[t].entityProperties[PathPositionX].timeline.keyframes
         /\ TlAddKeyframe(t, time, PathPositionX, value))
        => /\ last'.err = "DuplicateKeyframe"
           /\ timeline'[t].entityProperties[PathPositionX].timeline
                  = timeline[t].entityProperties[PathPositionX].timeline
           /\ timeline'[t].length = timeline[t].length
    ]_vars

\* addKeyframe has failed with DuplicateKeyframe on a property that holds
\* two keyframes, the one at time 2 with value 5.
C23_Witness ==
    \E t \in Timelines :
        /\ last.op = "addKeyframe"
        /\ last.err = "DuplicateKeyframe"
        /\ PathPositionX \in DOMAIN timeline[t].entityProperties
        /\ Len(timeline[t].entityProperties[PathPositionX].timeline.sortedTimes) = 2
        /\ timeline[t].entityProperties[PathPositionX].timeline.keyframes[2] = 5

\* C24: addTimeline (bindToEntity) of a Timeline that has an owning Entity
\* fails with AlreadyBound and leaves the Timeline as it is, and no call
\* changes the owning Entity of a Timeline that has one.
C24_BindsOnce ==
    [][\A t \in Timelines :
        timeline[t].entity # NoEntity =>
            /\ timeline'[t].entity = timeline[t].entity
            /\ \A this \in Entities :
                   AddTimeline(this, t) =>
                       /\ last'.err = "AlreadyBound"
                       /\ timeline'[t] = timeline[t]
    ]_vars

\* addTimeline has failed with AlreadyBound for a Timeline whose owning
\* Entity was added to a parent, renamed there, and removed again.
C24_Witness ==
    \E t \in Timelines :
        /\ last.op = "addTimeline"
        /\ last.err = "AlreadyBound"
        /\ timeline[t].entity \notin {NoEntity, SceneId}
        /\ parent[timeline[t].entity] = NoEntity
        /\ sceneObjectName[timeline[t].entity] = "a1"

\* The entity reached from `entity` by the child names `names`, NoEntity
\* when one of them is not the name of a child.
RECURSIVE ChildAt(_, _)
ChildAt(entity, names) ==
    IF names = <<>> THEN entity
    ELSE IF Head(names) \notin DOMAIN children[entity] THEN NoEntity
    ELSE ChildAt(children[entity][Head(names)], Tail(names))

\* The value reached from `value` by the field names `names`, Undefined when
\* one of them is not a field of the object reached.
RECURSIVE FieldAt(_, _)
FieldAt(value, names) ==
    IF names = <<>> THEN value
    ELSE IF value.kind # "object" \/ Head(names) \notin DOMAIN fields[value.n]
    THEN Undefined
    ELSE FieldAt(fields[value.n][Head(names)], Tail(names))

\* The entity names and the field names of a path.
EntityNamesOf(path) ==
    LET pieces == Split(Split(path, ":")[1], "/")
    IN [i \in DOMAIN pieces |-> Join(pieces[i])]

FieldNamesOf(path) ==
    LET pieces == Split(Split(path, ":")[2], ".")
    IN [i \in DOMAIN pieces |-> Join(pieces[i])]

Least(S) == CHOOSE i \in S : \A j \in S : i <= j

\* What resolving `path` against `entity` is to yield: the error and the
\* segment it names, or the object and the field bound.
Resolution(entity, path) ==
    LET names == EntityNamesOf(path)
        fieldNames == FieldNamesOf(path)
        lostNames == {i \in DOMAIN names : ChildAt(entity, SubSeq(names, 1, i)) = NoEntity}
        reached == Obj(ChildAt(entity, names))
        lostFields == {j \in DOMAIN fieldNames :
                          FieldAt(reached, SubSeq(fieldNames, 1, j)) = Undefined}
    IN IF lostNames # {}
       THEN [err |-> "UnknownChild", segment |-> names[Least(lostNames)]]
       ELSE IF lostFields # {}
       THEN [err |-> "UnknownProperty", segment |-> fieldNames[Least(lostFields)]]
       ELSE [err |-> "none",
             object |-> FieldAt(reached, SubSeq(fieldNames, 1, Len(fieldNames) - 1)),
             property |-> fieldNames[Len(fieldNames)]]

\* The paths of a Timeline, in the order they were added, that do not
\* resolve against `entity`.
Unresolvable(tl, entity) ==
    SelectSeq(tl.entityPropertiesList,
              LAMBDA path : Resolution(entity, path).err # "none")

\* The property of `path` is bound as Resolution says.
BoundAs(property, want) ==
    /\ property.enabled
    /\ property.object = want.object
    /\ property.property = want.property

\* C25: a valid path resolves against the binding entity when every entity
\* name is a child of the entity reached so far and every field name is a
\* field of the object reached so far, and the property is then bound to
\* the object the fields before the last lead to; otherwise resolution
\* fails with UnknownChild or UnknownProperty for the first name or field
\* that is missing, which the error names.  Resolution happens in
\* addKeyframe on a bound Timeline and, for every path in turn, in
\* addTimeline.
C25_PathResolution ==
    [][\A t \in Timelines :
        /\ \A path \in ResolvePaths : \A time \in PlayTimes : \A value \in EditValues :
               (/\ timeline[t].entity # NoEntity
                /\ path \in DOMAIN timeline[t].entityProperties
                       => /\ ~timeline[t].entityProperties[path].enabled
                          /\ time \notin DOMAIN
                                 timeline[t].entityProperties[path].timeline.keyframes
                /\ TlAddKeyframe(t, time, path, value))
               => LET want == Resolution(timeline[t].entity, path)
                      got == addKeyframe(timeline[t], time, path, value, children, fields)
                  IN /\ last'.err = want.err
                     /\ want.err # "none" => got.segment = want.segment
                     /\ want.err = "none"
                            => BoundAs(timeline'[t].entityProperties[path], want)
        /\ \A this \in Entities :
               (timeline[t].entity = NoEntity /\ AddTimeline(this, t))
               => LET lost == Unresolvable(timeline[t], this)
                      got == bindToEntity(timeline[t], this, children, fields)
                  IN IF lost # <<>>
                     THEN /\ last'.err = Resolution(this, lost[1]).err
                          /\ got.segment = Resolution(this, lost[1]).segment
                     ELSE /\ last'.err \in {"none", "hang"}
                          /\ \A path \in DOMAIN timeline[t].entityProperties :
                                 BoundAs(timeline'[t].entityProperties[path],
                                         Resolution(this, path))
    ]_vars

\* C26: resolution reads the fields of a path before the last only: for the
\* path a:position.w, whose last field w is no field of the position of the
\* Scene's child a, addKeyframe on a Timeline bound to the Scene, and
\* addTimeline of a Timeline that holds the path alone, succeed and bind
\* the property to that position and the name w.
C26_LeafNeedNotExist ==
    [][\A t \in Timelines :
        /\ \A time \in PlayTimes : \A value \in EditValues :
               (/\ timeline[t].entity = SceneId
                /\ PathNoLeaf \in DOMAIN timeline[t].entityProperties
                       => /\ ~timeline[t].entityProperties[PathNoLeaf].enabled
                          /\ time \notin DOMAIN
                                 timeline[t].entityProperties[PathNoLeaf].timeline.keyframes
                /\ TlAddKeyframe(t, time, PathNoLeaf, value))
               => /\ last'.err = "none"
                  /\ BoundAs(timeline'[t].entityProperties[PathNoLeaf],
                             [object |-> Obj(PositionOf(SceneId + 1)), property |-> "w"])
        /\ (/\ timeline[t].entity = NoEntity
            /\ timeline[t].entityPropertiesList = <<PathNoLeaf>>
            /\ AddTimeline(SceneId, t))
           => /\ last'.err = "none"
              /\ BoundAs(timeline'[t].entityProperties[PathNoLeaf],
                         [object |-> Obj(PositionOf(SceneId + 1)), property |-> "w"])
    ]_vars

\* The length a Timeline is to have: the greatest of the times of its
\* events and keyframes, 0 when it has none.
LengthOf(tl) ==
    IF ScheduledTimes(tl) = {} THEN Num(0)
    ELSE Num(CHOOSE m \in ScheduledTimes(tl) : \A time \in ScheduledTimes(tl) : time <= m)

\* C27: removeKeyframe(time, path) fails with UnknownPropertyPath when the
\* Timeline has no property for path and with UnknownKeyframe when the
\* property has no keyframe at time, and then changes nothing; otherwise it
\* removes the keyframe at time from the property, keeps every other
\* keyframe, and leaves the length the greatest time still scheduled.
C27_RemoveKeyframe ==
    [][\A t \in Timelines : \A time \in PlayTimes : \A path \in EditPaths :
        TlRemoveKeyframe(t, time, path) =>
            IF path \notin DOMAIN timeline[t].entityProperties
            THEN last'.err = "UnknownPropertyPath" /\ timeline'[t] = timeline[t]
            ELSE IF time \notin DOMAIN timeline[t].entityProperties[path].timeline.keyframes
            THEN last'.err = "UnknownKeyframe" /\ timeline'[t] = timeline[t]
            ELSE /\ last'.err = "none"
                 /\ DOMAIN timeline'[t].entityProperties = DOMAIN timeline[t].entityProperties
                 /\ \A other \in DOMAIN timeline[t].entityProperties :
                        timeline'[t].entityProperties[other].timeline.keyframes
                            = IF other = path
                              THEN Delete(timeline[t].entityProperties[other].timeline.keyframes,
                                          time)
                              ELSE timeline[t].entityProperties[other].timeline.keyframes
                 /\ timeline'[t].length = LengthOf(timeline'[t])
    ]_vars

\* C28: remove(name) fails with UnknownChild and changes nothing when the
\* receiver has no child of that name; otherwise it returns, and then the
\* child's parent is null, the receiver has no child of that name, and the
\* receiver's other children are as they were.
C28_RemoveByName ==
    [][\A this \in Entities : \A name \in NameArgs(this) :
        RemoveName(this, name) =>
            IF name \notin DOMAIN children[this]
            THEN last'.err = "UnknownChild" /\ UNCHANGED graphVars
            ELSE /\ last'.err = "none"
                 /\ parent'[children[this][name]] = NoEntity
                 /\ children'[this] = Delete(children[this], name)
    ]_vars

\* The name add is to give a child that asks for `requested` among the
\* children `kids`: the name asked for when no child has it, else the name
\* asked for followed by the least positive integer that makes a name no
\* child has.
NameWanted(requested, kids) ==
    IF requested \notin DOMAIN kids THEN requested
    ELSE requested \o NumberToString(
             Least({k \in 1..(Cardinality(DOMAIN kids) + 1) :
                       (requested \o NumberToString(k)) \notin DOMAIN kids}))

\* C29: an add that links the child gives it the name NameWanted of the
\* name it asked for, and links it under that name.
C29_AddNamesChild ==
    [][\A this \in Entities : \A object \in Entities \ {SceneId} :
        (Add(this, object) /\ last'.err # "AlreadyParented") =>
            /\ sceneObjectName'[object]
                   = NameWanted(sceneObjectName[object], children[this])
            /\ sceneObjectName'[object] \in DOMAIN children'[this]
            /\ children'[this][sceneObjectName'[object]] = object
    ]_vars

\* The place of the first x in a sequence that holds it.
PlaceIn(seq, x) == Least({i \in DOMAIN seq : seq[i] = x})

\* The sequence holds exactly the elements of S, each once, and x is before
\* y in it exactly when x is first before y in `order`.
HoldsInOrder(seq, S, order) ==
    /\ Range(seq) = S
    /\ Len(seq) = Cardinality(S)
    /\ \A x, y \in S :
           PlaceIn(seq, x) < PlaceIn(seq, y) <=> PlaceIn(order, x) < PlaceIn(order, y)

\* C30: registerSceneTimelines adds to the cache set the Timelines it does
\* not hold, after those it holds and in the order given, and changes
\* nothing for one it holds; unregisterSceneTimelines takes out the
\* Timelines the set holds, keeps the order of the rest, and changes nothing
\* for one it does not hold; after either the cache array is the elements of
\* the set, each once, in the set's order.
C30_CacheFollowsSet ==
    [][\A tls \in TimelineLists :
        /\ RegisterSceneTimelines(tls) =>
               /\ HoldsInOrder(timelineCacheSet',
                               Range(timelineCacheSet) \cup Range(tls),
                               timelineCacheSet \o tls)
               /\ Range(tls) \subseteq Range(timelineCacheSet)
                      => timelineCacheSet' = timelineCacheSet
               /\ HoldsInOrder(timelineCache', Range(timelineCacheSet'), timelineCacheSet')
        /\ UnregisterSceneTimelines(tls) =>
               /\ HoldsInOrder(timelineCacheSet',
                               Range(timelineCacheSet) \ Range(tls),
                               timelineCacheSet)
               /\ Range(tls) \cap Range(timelineCacheSet) = {}
                      => timelineCacheSet' = timelineCacheSet
               /\ HoldsInOrder(timelineCache', Range(timelineCacheSet'), timelineCacheSet')
    ]_vars

\* Timelines 2, 3 and 1 were registered in that order and 3 unregistered.
C30_Witness ==
    /\ last.op = "unregisterSceneTimelines"
    /\ timelineCacheSet = <<2, 1>>
    /\ timelineCache = <<2, 1>>


\* C31: after any calls of PropertyTimeline.addKeyframe and removeKeyframe,
\* sortedTimes holds the times of keyframes, each once, in ascending numeric
\* order, and length is the greatest time when there is a keyframe.
C31_SortedTimesAscending ==
    /\ Range(propertyTimeline.sortedTimes) = DOMAIN propertyTimeline.keyframes
    /\ Len(propertyTimeline.sortedTimes) = Cardinality(DOMAIN propertyTimeline.keyframes)
    /\ \A i, j \in DOMAIN propertyTimeline.sortedTimes :
           i < j => propertyTimeline.sortedTimes[i] < propertyTimeline.sortedTimes[j]
    /\ \A time \in DOMAIN propertyTimeline.keyframes :
           /\ IsNum(propertyTimeline.length)
           /\ time <= propertyTimeline.length.n
           /\ propertyTimeline.length.n \in DOMAIN propertyTimeline.keyframes

\* A PropertyTimeline that was given the keyframes `keyframes` one after the
\* other and was never queried.
RECURSIVE BuiltFrom(_)
BuiltFrom(keyframes) ==
    IF DOMAIN keyframes = {} THEN NewPropertyTimeline
    ELSE LET time == CHOOSE k \in DOMAIN keyframes : TRUE
         IN ptAddKeyframe(BuiltFrom(Delete(keyframes, time)), time, keyframes[time])

\* C32: getValue(t) returns what a PropertyTimeline of the same keyframes
\* that was built by insertions alone and never queried returns for t,
\* whatever queries, insertions and removals came before.
C32_CursorNotObservable ==
    [][\A time \in QueryTimes :
        PtGetValue(time) =>
            queried'.value = getValue(BuiltFrom(propertyTimeline.keyframes), time).value
    ]_vars

\* C33: after addKeyframe, removeKeyframe or addEvent of a Timeline, returned
\* or thrown, the length the Timeline caches is the length getLength()
\* computes from the keyframes and events it then has.
C33_LengthCacheCurrent ==
    [][\A t \in Timelines :
        (/\ last'.op \in {"addKeyframe", "removeKeyframe", "addEvent"}
         /\ timeline'[t] # timeline[t])
        => timeline'[t].length = getLength(timeline'[t])
    ]_vars

\* C34: this.remove(object), for an Entity, unlinks no entity but object:
\* every other child of this stays its child under its name, and when object
\* is not a child of this the call fails and the children are unchanged.
C34_RemoveUnlinksOnlyArgument ==
    [][\A this, object \in Entities :
        RemoveEntity(this, object)
        => /\ \A name \in DOMAIN children[this] :
                  children[this][name] # object
                  => /\ name \in DOMAIN children'[this]
                     /\ children'[this][name] = children[this][name]
                     /\ parent'[children[this][name]] = parent[children[this][name]]
           /\ object \notin Range(children[this])
              => /\ last'.err = "UnknownChild"
                 /\ children' = children
    ]_vars

\* C35: in every run of a Timeline, a run started by play() after a stop
\* included, update() fires the events the run crosses: when no event has
\* fired yet since the Timeline was last Stopped and the elapsed time has
\* reached the earliest scheduled event time, update() calls its callbacks.
C35_EventsFireInNewRun ==
    [][\A t \in Timelines :
        (/\ timeline[t].playState = "Playing"
         /\ firedInCycle[t] = {}
         /\ timeline[t].sortedEventTimes # <<>>
         /\ Update(t)
         /\ last'.err = "none"
         /\ timeline[t].sortedEventTimes[1] <= updated'.elapsed)
        => timeline[t].sortedEventTimes[1] \in FiredTimes(updated'.effects, 0)
    ]_vars

\* C36: update() of a Paused Timeline, looping or not, leaves it Paused and
\* leaves the value of getTimeElapsed() what it was.
C36_UpdateKeepsPaused ==
    [][\A t \in Timelines :
        (timeline[t].playState = "Paused" /\ Update(t))
        => /\ timeline'[t].playState = "Paused"
           /\ getTimeElapsed(timeline'[t], now') = getTimeElapsed(timeline[t], now)
    ]_vars

\* ------------------------------------------------- a Timeline run to its end
\* A Timeline of keyframes for one property and of events, edited while it is
\* Stopped, then played and updated frame after frame while the clock moves
\* on: Scene.render calls update() on every frame, and it is neither paused
\* nor stopped by hand.  play() is called where the clock has room left for
\* the latest time that can be scheduled.
PlayToEnd(t, startPosition) ==
    /\ \A time \in PlayTimes :
           play(timeline[t], startPosition, now).startTime + time <= MaxNow
    /\ Play(t, startPosition)

NextLive ==
    \/ \E t \in Timelines : \E time \in PlayTimes :
           /\ timeline[t].playState = "Stopped"
           /\ TlAddKeyframe(t, time, PathPositionX, KeyValueAt(time))
    \/ \E t \in Timelines : \E time \in PlayTimes :
           /\ timeline[t].playState = "Stopped"
           /\ TlRemoveKeyframe(t, time, PathPositionX)
    \/ \E t \in Timelines : \E time \in PlayTimes :
           /\ timeline[t].playState = "Stopped"
           /\ TlAddEvent(t, time)
    \/ \E t \in Timelines : \E startPosition \in StartPositions :
           PlayToEnd(t, startPosition)
    \/ \E t \in Timelines : Update(t)
    \/ Tick

\* update() of Timeline t that yields `done` changes the state.
UpdateChanges(t, done) ==
    \/ done.tl # timeline[t]
    \/ done.heap # fields
    \/ updated # [elapsed |-> getTimeElapsed(timeline[t], now),
                  effects |-> done.trace, pass |-> done.pass]
    \/ firedInCycle[t] # IF done.tl.playState = "Stopped" THEN {}
                         ELSE (IF done.pass > 0 THEN {} ELSE firedInCycle[t])
                                  \cup FiredTimes(done.trace, done.pass)
    \/ last # Call("update", done.err, NoEntity, NoEntity, "")

\* ENABLED <<Update(t)>>_vars, computed from the state.
UpdateEnabled(t) ==
    /\ ~hung
    /\ UpdateChanges(t, update(timeline[t], fields, now, <<>>, 0))

\* The clock keeps advancing and every Timeline keeps being updated: weak
\* fairness of Tick and of Update(t), the latter written out as
\* []<>(~ENABLED <<Update(t)>>_vars) \/ []<><<Update(t)>>_vars.
Fairness ==
    /\ WF_vars(Tick)
    /\ \A t \in Timelines :
           \/ []<>(~UpdateEnabled(t))
           \/ []<><<Update(t)>>_vars

SpecLive == InitTL /\ [][NextLive]_vars /\ Fairness

\* C37: a Playing Timeline that does not loop is eventually Stopped, when
\* the clock keeps advancing and update() keeps being called, whatever
\* keyframes and events were added and removed before play().
C37_PlayingEventuallyStops ==
    \A t \in Timelines :
        (timeline[t].playState = "Playing" /\ ~timeline[t].loop)
            ~> (timeline[t].playState = "Stopped")

====
